---- MODULE Spec2Model ----
(***************************************************************************)
(* Independent Cascade simulation and Monte Carlo spread estimation of     *)
(* spellbook/network/cascade.py, as a state machine.                       *)
(*                                                                         *)
(*   Spec        one call of independent_cascade                           *)
(*   SpecReplay  two calls of independent_cascade on one seeded stream     *)
(*   SpecSpread  one call of estimate_spread                               *)
(*   SpecSpreadSeeded  estimate_spread with the generator seeded           *)
(*   SpecCoupled one estimate for a seed set, one for a superset, on the   *)
(*               same edge outcomes                                        *)
(*   SpecCelf    one call of celf                                          *)
(*   SpecCelfLoop  one call of celf that reaches its selection loop        *)
(*   SpecLegacy  one call of _celf_deprecated, followed for MaxPops pops   *)
(*   SpecLegacyFair  the same, the loop running while it can               *)
(*   SpecSearch  one call of search_urls (spellbook/scraper/search.py),    *)
(*               provider google, multi_window                             *)
(*   SpecCaptcha one call of CaptchaDetector.handle_captcha                *)
(*               (spellbook/scraper/captcha_detector.py)                   *)
(*                                                                         *)
(* Probabilities are fixed-point numbers in units of 1/One: the value p    *)
(* stands for p/One, so 0 is probability 0 and One is probability 1.       *)
(* random.random() returns a float in [0, 1): a draw is a value of         *)
(* 0 .. One-1.                                                             *)
(*                                                                         *)
(* A graph is a set of directed edges over Nodes together with a partial   *)
(* map attr from edges to the value stored under prob_attr: an edge        *)
(* outside DOMAIN attr has no such attribute (G[u][v][prob_attr] raises    *)
(* KeyError).  An undirected graph stores every edge in both directions    *)
(* with one shared attribute dictionary, as networkx does.                 *)
(***************************************************************************)
EXTENDS Integers, Sequences, FiniteSets, TLC

\* ------------------------------------------------------------------ bounds
NumNodes == 3
MaxEdges == 2
MaxSteps == 3
MaxTrials == 2
MaxSites == 2
MaxPageLen == 2
MaxWait == 12
MaxPops == 4

\* The probability 1 in fixed-point units (two units: 0, 1/2, 1).
One == 2

Nodes == 1 .. NumNodes
\* A node identifier that is not a node of the graph.
Ghost == 0

Draws == 0 .. (One - 1)
\* Values an edge may store under prob_attr.
EdgeProbs == {One \div 2}
\* Values of the default_prob argument: below 0, inside [0, 1], above 1.
DefaultProbs == (0 - 1) .. (One + 1)
\* Values of the max_steps argument.
StepCaps == (0 - 1) .. MaxSteps

Pairs == {e \in Nodes \X Nodes : e[1] # e[2]}
UPairs == {e \in Pairs : e[1] < e[2]}
Flip(e) == <<e[2], e[1]>>
Sym(F) == F \cup {Flip(e) : e \in F}

\* Values of the mc argument of estimate_spread.
TrialCounts == (0 - 1) .. MaxTrials

\* Seed arguments of estimate_spread: lists of up to two entries, which may
\* repeat a node or name a foreign one.
SeedLists ==
    {<<>>} \cup {<<a>> : a \in Nodes \cup {Ghost}}
           \cup {<<a, b>> : a \in Nodes, b \in Nodes \cup {Ghost}}

\* Seed arguments: every set of graph nodes, and two sets with a foreign node.
SeedSets == (SUBSET Nodes) \cup {{Ghost}, {Ghost, 1}}

VARIABLES
    edges,          \* G: the directed edges (both directions when undirected)
    attr,           \* G: edge -> value stored under prob_attr (partial)
    directed,       \* G.is_directed()
    seeds,          \* argument seeds
    max_steps,      \* argument max_steps
    default_prob,   \* argument default_prob
    pc,             \* position of the call
    active,         \* local active
    newly_active,   \* local newly_active
    steps,          \* local steps
    attempts_next,  \* local attempts_next
    rounds,         \* number of iterations of the for loop begun so far
    visited,        \* (u, v) pairs of the current round already iterated
    attempts,       \* history: the activation attempts made, in order
    raised,         \* the exception the call ended with, "" when none
    tape,           \* the random generator's output stream, as far as drawn
    tpos,           \* number of values drawn since the generator was seeded
    run,            \* 1 for the first call, 2 for the call after reseeding
    first,          \* active set and history the first call returned
    est_pc,         \* position of the estimate_spread call, "idle" when none
    seeds_arg,      \* estimate_spread: argument seeds (a list)
    mc,             \* estimate_spread: argument mc
    trial,          \* estimate_spread: iterations of range(mc) completed
    total,          \* estimate_spread: the running sum
    trials,         \* history: seed set and active-set size of each trial
    result,         \* estimate_spread: <<numerator, denominator>> returned
    world,          \* coupled calls: <<trial, u, v, r>>, the value drawn for
                    \* the attempt on edge (u, v) in that trial
    seeds_more,     \* coupled calls: the seed list of the second call
    result1,        \* coupled calls: the result of the first call
    celf_pc,        \* celf: "idle", "start", "init", "select", "returned",
                    \* "raised"
    k,              \* celf: argument k
    pq,             \* celf: the heap, a set of <<-gain, node, last_eval>>
    celf_seeds,     \* celf: the local list seeds
    spread_S,       \* celf: the local spread_S
    next_node,      \* celf: position of the loop `for node in G.nodes()`
    estimates,      \* history: number of estimate_spread calls celf made
    first_gain,     \* history: <<node, spread>> of the initial estimates
    basis,          \* history: for each node, the seed set its queued gain
                    \* was computed against
    stale_pops,     \* history: stale pops since the last accepted seed
    recomputed,     \* history: nodes re-evaluated since the last accepted
                    \* seed
    accepts,        \* history: the accepted entries, with the seed set
                    \* before each acceptance
    iter_num,       \* _celf_deprecated: the local iter_num
    search_pc,      \* search_urls: "idle", "start", "fetch", "loop",
                    \* "extract", "return", "returned"
    max_results,    \* search_urls: argument max_results
    max_paginate,   \* search_urls: argument max_paginate: <<n>>, <<>> for None
    pages,          \* search_urls: number of result pages to fetch
    results,        \* search_urls: what arun_many returned, one per page:
                    \* [ok |-> FALSE] is None, urls the extracted items
    page_i,         \* search_urls: pages the loop over results has visited
    page_result,    \* search_urls: the variable result
    collected,      \* search_urls: the list collected
    found,          \* search_urls: the returned list
    cap_pc,         \* handle_captcha: "idle", "start", "input", "poll",
                    \* "returned"
    is_captcha,     \* handle_captcha: argument is_captcha
    headless,       \* handle_captcha: argument headless
    max_wait_time,  \* handle_captcha: argument max_wait_time, in seconds
    can_check,      \* handle_captcha: crawler and retry_url and retry_config
    waited_time,    \* handle_captcha: the local waited_time
    polls,          \* history: iterations of the polling loop
    handled,        \* history: how the call ended: "none" (no CAPTCHA),
                    \* "confirmed", "cancelled", "rechecked", "timeout"
    cap_result      \* handle_captcha: the returned value, <<>> before

cascadeVars == <<pc, active, newly_active, steps, attempts_next, rounds,
                 visited, attempts, raised>>
graphVars == <<edges, attr, directed>>
argVars == <<seeds, max_steps, default_prob>>
rngVars == <<tape, tpos>>
replayVars == <<run, first>>
spreadVars == <<est_pc, seeds_arg, mc, trial, total, trials, result>>
coupleVars == <<world, seeds_more, result1>>
celfHist == <<basis, stale_pops, recomputed, accepts>>
celfVars == <<celf_pc, k, pq, celf_seeds, spread_S, next_node, estimates,
              first_gain, celfHist, iter_num>>
searchVars == <<search_pc, max_results, max_paginate, pages, results, page_i,
                page_result, collected, found>>
captchaVars == <<cap_pc, is_captcha, headless, max_wait_time, can_check,
                 waited_time, polls, handled, cap_result>>
outerVars == <<replayVars, coupleVars, celfVars, searchVars, captchaVars>>
callerVars == <<outerVars, spreadVars>>
vars == <<graphVars, argVars, cascadeVars, rngVars, callerVars>>

\* --------------------------------------------------------------- the graph
\* Variant: the edges read against their direction (G.predecessors(u)).
SuccessorsReversed(u) == {v \in Nodes : <<v, u>> \in edges}

\* G.successors(u) of a directed graph.
Successors(u) == {v \in Nodes : <<u, v>> \in edges}

\* G.neighbors(u) of an undirected graph: both directions are stored.
Neighbors(u) == {v \in Nodes : <<u, v>> \in edges \/ <<v, u>> \in edges}

NeighborsOf(u) == IF directed THEN Successors(u) ELSE Neighbors(u)

\* Variant: the edge attribute is never read.
EdgeProbDefaultOnly(u, v) == default_prob

\* try: p = G[u][v][prob_attr]  except KeyError: p = default_prob
EdgeProb(u, v) ==
    IF <<u, v>> \in DOMAIN attr THEN attr[<<u, v>>] ELSE default_prob

\* if v not in active
IsTarget(v) == v \notin active

\* Variant: random.random() <= p.
SucceedsLeq(r, p) == r <= p

\* if random.random() < p
Succeeds(r, p) == r < p

\* Variant: range(max_steps + 1).
InRangeInclusive(i, n) == i <= n

\* for _ in range(max_steps): whether iteration number i + 1 exists.
InRange(i, n) == i < n

\* Variant: the loop never breaks.
RoundIsEmptyNever(nxt) == FALSE

\* if not attempts_next: break
RoundIsEmpty(nxt) == nxt = {}

\* Variant: active = set().
InitialActiveEmpty(s) == {}

\* active = set(seeds)
InitialActive(s) == s

\* Variant: every active node attempts again in the next round.
FrontierAll(act, nxt) == act \cup nxt

\* newly_active = attempts_next
Frontier(act, nxt) == nxt

\* Variant: active = newly_active.
AbsorbReplace(act, nxt) == nxt

\* active |= newly_active
Absorb(act, nxt) == act \cup nxt

\* ------------------------------------------------------- independent_cascade
\* The (u, v) pairs the two nested for loops of the current round have still
\* to attempt: u in newly_active, v a neighbor of u that is not active.  The
\* active set does not change inside a round, so a neighbor that is skipped
\* is skipped whenever it is met.
Pending ==
    {e \in Pairs : /\ e[1] \in newly_active
                   /\ e[2] \in NeighborsOf(e[1])
                   /\ IsTarget(e[2])} \ visited

PairLeq(e, f) == e[1] < f[1] \/ (e[1] = f[1] /\ e[2] <= f[2])

\* Variant: the loops meet the pairs in an order that varies between calls.
NextPairsAnyOrder(P) == P

\* The pair the loops meet next.  Iterating a set or an adjacency dictionary
\* visits its elements in an order fixed by its contents; it is modelled as
\* ascending node identifier (the graphs of Init are closed under renaming).
NextPairs(P) == {e \in P : \A f \in P : PairLeq(e, f)}

\* Variant: the membership check of line 81 is missing.
InvalidArgumentsNoMembership ==
    \/ seeds = {}
    \/ ~ (0 <= default_prob /\ default_prob <= One)

\* Lines 78-85: the three argument checks, in order.
InvalidArguments ==
    \/ seeds = {}
    \/ ~ (seeds \subseteq Nodes)
    \/ ~ (0 <= default_prob /\ default_prob <= One)

\* Lines 78-90: validation, then the initial simulation state.
Validate ==
    /\ pc = "call"
    /\ IF InvalidArguments
       THEN /\ pc' = "raised"
            /\ raised' = "ValueError"
            /\ UNCHANGED <<active, newly_active, steps>>
       ELSE /\ pc' = "for"
            /\ active' = InitialActive(seeds)
            /\ newly_active' = seeds
            /\ steps' = <<seeds>>
            /\ UNCHANGED raised
    /\ UNCHANGED <<attempts_next, rounds, visited, attempts>>
    /\ UNCHANGED <<graphVars, argVars, rngVars, callerVars>>

\* Lines 93-94 and 123: the next iteration of `for _ in range(max_steps)`
\* begins, or the range is exhausted and the function returns.
LoopHead ==
    /\ pc = "for"
    /\ IF InRange(rounds, max_steps)
       THEN /\ pc' = "round"
            /\ rounds' = rounds + 1
            /\ attempts_next' = {}
            /\ visited' = {}
       ELSE /\ pc' = "returned"
            /\ UNCHANGED <<rounds, attempts_next, visited>>
    /\ UNCHANGED <<active, newly_active, steps, attempts, raised>>
    /\ UNCHANGED <<graphVars, argVars, rngVars, callerVars>>

\* Lines 105-112: the activation attempt on the pair e = (u, v), with r the
\* value random.random() returns.
AttemptOn(e, r) ==
    LET p == EdgeProb(e[1], e[2]) IN
    /\ attempts_next' = IF Succeeds(r, p)
                        THEN attempts_next \cup {e[2]}
                        ELSE attempts_next
    /\ visited' = visited \cup {e}
    /\ attempts' = Append(attempts,
           [u |-> e[1], v |-> e[2], p |-> p, round |-> rounds])
    /\ UNCHANGED <<pc, active, newly_active, steps, rounds, raised>>
    /\ UNCHANGED <<graphVars, argVars, replayVars, spreadVars>>

\* Lines 97-112: one activation attempt, on the next pair the loops reach.
Attempt(r) ==
    /\ pc = "round"
    /\ \E e \in NextPairs(Pending) : AttemptOn(e, r)
    /\ UNCHANGED <<coupleVars, celfVars, searchVars,
                   captchaVars>>

\* Line 111 with the generator in an unknown state: any value may come.
Draw ==
    /\ \E r \in Draws : Attempt(r)
    /\ UNCHANGED rngVars

\* Lines 114-121: the round is over: break when nothing was activated,
\* otherwise absorb the new frontier and record a snapshot.
EndRound ==
    /\ pc = "round"
    /\ Pending = {}
    /\ IF RoundIsEmpty(attempts_next)
       THEN /\ pc' = "returned"
            /\ UNCHANGED <<active, newly_active, steps>>
       ELSE /\ pc' = "for"
            /\ newly_active' = Frontier(active, attempts_next)
            /\ active' = Absorb(active, attempts_next)
            /\ steps' = Append(steps, active')
    /\ UNCHANGED <<attempts_next, rounds, visited, attempts, raised>>
    /\ UNCHANGED <<graphVars, argVars, rngVars, callerVars>>

\* ------------------------------------------------------------------ inputs
DirectedEdgeSets == {E \in SUBSET Pairs : Cardinality(E) <= MaxEdges}
UndirectedEdgeSets == {E \in SUBSET UPairs : Cardinality(E) <= MaxEdges}

\* Directed graphs with at most MaxEdges edges, any subset of which carries
\* the probability attribute.
DirectedGraph ==
    /\ directed = TRUE
    /\ edges \in DirectedEdgeSets
    /\ \E A \in SUBSET edges : attr \in [A -> EdgeProbs]

\* Undirected graphs with at most MaxEdges edges.
UndirectedGraph ==
    /\ directed = FALSE
    /\ \E F \in UndirectedEdgeSets :
         /\ edges = Sym(F)
         /\ \E A \in SUBSET F : \E a \in [A -> EdgeProbs] :
              attr = [e \in Sym(A) |-> IF e \in A THEN a[e] ELSE a[Flip(e)]]

\* No coupled pair of calls is under way.
CoupleIdle ==
    /\ world = {}
    /\ seeds_more = <<>>
    /\ result1 = <<>>

\* Nothing was evaluated, popped or accepted yet.
HistStart ==
    /\ basis = [n \in Nodes |-> {}]
    /\ stale_pops = 0
    /\ recomputed = {}
    /\ accepts = <<>>

\* celf has not been called.
CelfIdle ==
    /\ celf_pc = "idle"
    /\ k = 0
    /\ pq = {}
    /\ celf_seeds = <<>>
    /\ spread_S = 0
    /\ next_node = 0
    /\ estimates = 0
    /\ first_gain = {}
    /\ HistStart
    /\ iter_num = 0

\* search_urls has not been called.
SearchIdle ==
    /\ search_pc = "idle"
    /\ max_results = 0
    /\ max_paginate = <<>>
    /\ pages = 0
    /\ results = <<>>
    /\ page_i = 0
    /\ page_result = [ok |-> FALSE, urls |-> <<>>]
    /\ collected = <<>>
    /\ found = <<>>

\* handle_captcha has not been called.
CaptchaIdle ==
    /\ cap_pc = "idle"
    /\ is_captcha = FALSE
    /\ headless = TRUE
    /\ max_wait_time = 0
    /\ can_check = FALSE
    /\ waited_time = 0
    /\ polls = 0
    /\ handled = ""
    /\ cap_result = <<>>

CascadeStart ==
    /\ pc = "call"
    /\ active = {}
    /\ newly_active = {}
    /\ steps = <<>>
    /\ attempts_next = {}
    /\ rounds = 0
    /\ visited = {}
    /\ attempts = <<>>
    /\ raised = ""

RngStart ==
    /\ tape = <<>>
    /\ tpos = 0

\* A call independent_cascade(G, seeds, max_steps, prob_attr, default_prob)
\* with the arguments taken from the sets S, C and D.
CallWith(S, C, D) ==
    /\ DirectedGraph \/ UndirectedGraph
    /\ seeds \in S
    /\ max_steps \in C
    /\ default_prob \in D
    /\ CascadeStart
    /\ RngStart
    /\ run = 1
    /\ first = [active |-> {}, steps |-> <<>>]
    /\ est_pc = "idle"
    /\ seeds_arg = <<>>
    /\ mc = 0
    /\ trial = 0
    /\ total = 0
    /\ trials = <<>>
    /\ result = <<>>
    /\ CoupleIdle
    /\ CelfIdle
    /\ CaptchaIdle
    /\ SearchIdle

Init == CallWith(SeedSets, StepCaps, DefaultProbs)

Next ==
    \/ Validate
    \/ LoopHead
    \/ Draw
    \/ EndRound

Spec == Init /\ [][Next]_vars

\* ------------------------------------ two calls on one seeded random stream
\* Line 111 with a seeded generator: the value drawn is the next one of the
\* generator's stream.  The stream is fixed by the seed; the model chooses
\* each of its values when it is first drawn.
SeededDraw ==
    IF tpos < Len(tape)
    THEN /\ Attempt(tape[tpos + 1])
         /\ tpos' = tpos + 1
         /\ UNCHANGED tape
    ELSE \E r \in Draws :
            /\ Attempt(r)
            /\ tape' = Append(tape, r)
            /\ tpos' = tpos + 1

\* The first call has returned; the caller seeds the generator as before and
\* calls independent_cascade again with the same graph and arguments.
Reseed ==
    /\ pc = "returned"
    /\ run = 1
    /\ first' = [active |-> active, steps |-> steps]
    /\ run' = 2
    /\ tpos' = 0
    /\ pc' = "call"
    /\ active' = {}
    /\ newly_active' = {}
    /\ steps' = <<>>
    /\ attempts_next' = {}
    /\ rounds' = 0
    /\ visited' = {}
    /\ attempts' = <<>>
    /\ UNCHANGED <<raised, tape, graphVars, argVars, spreadVars, coupleVars,
                   celfVars, searchVars,
                   captchaVars>>

NextReplay ==
    \/ Validate
    \/ LoopHead
    \/ SeededDraw
    \/ EndRound
    \/ Reseed

\* The two calls return something only for valid arguments; max_steps either
\* stops the cascade after one round or, at MaxSteps, lets it run.
InitReplay == CallWith((SUBSET Nodes) \ {{}}, {1, MaxSteps}, 0 .. One)

SpecReplay == InitReplay /\ [][NextReplay]_vars

\* ----------------------------------------------------------- estimate_spread
Range(s) == {s[i] : i \in 1 .. Len(s)}

\* set(seeds)
TrialSeeds(l) == Range(l)

\* Variant: the sum is returned undivided.
EstResultSum(sum, n) == <<sum, 1>>

\* sum(...) / mc, kept as the fraction <<sum, mc>>.
EstResult(sum, n) == <<sum, n>>

\* Variant: only the nodes activated beyond the seeds are counted.
TrialSizeNewOnly(act, sds) == Cardinality(act \ sds)

\* len(independent_cascade(G, set(seeds), **kwargs)[0])
TrialSize(act, sds) == Cardinality(act)

\* Line 127, the generator's next item: a trial calls
\* independent_cascade(G, set(seeds), **kwargs).
StartTrial ==
    /\ est_pc = "trials"
    /\ InRange(trial, mc)
    /\ est_pc' = "in_trial"
    /\ seeds' = TrialSeeds(seeds_arg)
    /\ pc' = "call"
    /\ active' = {}
    /\ newly_active' = {}
    /\ steps' = <<>>
    /\ attempts_next' = {}
    /\ rounds' = 0
    /\ visited' = {}
    /\ attempts' = <<>>
    /\ UNCHANGED <<raised, max_steps, default_prob, seeds_arg, mc, trial,
                   total, trials, result>>
    /\ UNCHANGED <<graphVars, rngVars, outerVars>>

\* Line 127: the trial's call returned; len(...[0]) is added to the sum.
TrialReturn ==
    /\ est_pc = "in_trial"
    /\ pc = "returned"
    /\ est_pc' = "trials"
    /\ pc' = "idle"
    /\ total' = total + TrialSize(active, seeds)
    /\ trial' = trial + 1
    /\ trials' = Append(trials, [seeds |-> seeds, size |-> Cardinality(active)])
    /\ UNCHANGED <<active, newly_active, steps, attempts_next, rounds, visited,
                   attempts, raised>>
    /\ UNCHANGED <<seeds_arg, mc, result>>
    /\ UNCHANGED <<graphVars, argVars, rngVars, outerVars>>

\* Line 127: the trial's call raised; the exception leaves estimate_spread.
TrialRaise ==
    /\ est_pc = "in_trial"
    /\ pc = "raised"
    /\ est_pc' = "raised"
    /\ pc' = "idle"
    /\ UNCHANGED <<active, newly_active, steps, attempts_next, rounds, visited,
                   attempts, raised>>
    /\ UNCHANGED <<seeds_arg, mc, trial, total, trials, result>>
    /\ UNCHANGED <<graphVars, argVars, rngVars, outerVars>>

\* Line 127: range(mc) is exhausted; the sum is divided by mc.
EstReturn ==
    /\ est_pc = "trials"
    /\ ~ InRange(trial, mc)
    /\ IF mc = 0
       THEN /\ est_pc' = "raised"
            /\ raised' = "ZeroDivisionError"
            /\ UNCHANGED result
       ELSE /\ est_pc' = "returned"
            /\ result' = EstResult(total, mc)
            /\ UNCHANGED raised
    /\ UNCHANGED <<pc, active, newly_active, steps, attempts_next, rounds,
                   visited, attempts>>
    /\ UNCHANGED <<seeds_arg, mc, trial, total, trials>>
    /\ UNCHANGED <<graphVars, argVars, rngVars, outerVars>>

NoAttribute == [e \in {} |-> 0]

\* Graphs with at most MaxEdges edges, none of which carries the attribute.
PlainGraph ==
    /\ attr = NoAttribute
    /\ \/ /\ directed = TRUE
          /\ edges \in DirectedEdgeSets
       \/ /\ directed = FALSE
          /\ \E F \in UndirectedEdgeSets : edges = Sym(F)

\* A call estimate_spread(G, seeds, mc, max_steps=MaxSteps, default_prob=...).
InitSpread ==
    /\ PlainGraph
    /\ seeds_arg \in SeedLists
    /\ mc \in TrialCounts
    /\ max_steps = MaxSteps
    /\ default_prob \in DefaultProbs
    /\ est_pc = "trials"
    /\ trial = 0
    /\ total = 0
    /\ trials = <<>>
    /\ result = <<>>
    /\ seeds = {}
    /\ pc = "idle"
    /\ active = {}
    /\ newly_active = {}
    /\ steps = <<>>
    /\ attempts_next = {}
    /\ rounds = 0
    /\ visited = {}
    /\ attempts = <<>>
    /\ raised = ""
    /\ RngStart
    /\ run = 1
    /\ first = [active |-> {}, steps |-> <<>>]
    /\ CoupleIdle
    /\ CelfIdle
    /\ CaptchaIdle
    /\ SearchIdle

NextSpread ==
    \/ StartTrial
    \/ Validate
    \/ LoopHead
    \/ Draw
    \/ EndRound
    \/ TrialReturn
    \/ TrialRaise
    \/ EstReturn

SpecSpread == InitSpread /\ [][NextSpread]_vars

\* estimate_spread with the generator seeded by the caller: every trial draws
\* from the one stream of the random module (line 8, line 111).
NextSpreadSeeded ==
    \/ StartTrial
    \/ Validate
    \/ LoopHead
    \/ SeededDraw
    \/ EndRound
    \/ TrialReturn
    \/ TrialRaise
    \/ EstReturn

SpecSpreadSeeded == InitSpread /\ [][NextSpreadSeeded]_vars

\* ------------------------------- two estimates on the same edge outcomes
\* The seed list in the order a caller writes it from the set S.
RECURSIVE AscList(_)
AscList(S) ==
    IF S = {}
    THEN <<>>
    ELSE LET m == CHOOSE x \in S : \A y \in S : x <= y
         IN <<m>> \o AscList(S \ {m})

\* The values of mc the two coupled calls are made with: a single trial, and
\* two trials, where the estimate is a sum over different edge outcomes.
CoupledTrials == {1, 2}

\* The outcomes already fixed for the pair e in the current trial.
Fixed(e) == {w \in world : w[1] = trial /\ w[2] = e[1] /\ w[3] = e[2]}

\* Line 111 when two calls are evaluated on the same edge outcomes: in trial
\* i of either call the attempt on (u, v) gets the same value.  The value is
\* chosen when the pair is first attempted in trial i.
CoupledDraw ==
    /\ pc = "round"
    /\ \E e \in NextPairs(Pending) :
         IF Fixed(e) # {}
         THEN /\ \E w \in Fixed(e) : AttemptOn(e, w[4])
              /\ UNCHANGED world
         ELSE \E r \in Draws :
                 /\ AttemptOn(e, r)
                 /\ world' = world \cup {<<trial, e[1], e[2], r>>}
    /\ UNCHANGED <<seeds_more, result1, rngVars, celfVars, searchVars,
                   captchaVars>>

\* The first estimate has returned; the caller calls estimate_spread again
\* with the larger seed list and the same graph and keyword arguments.
SecondEstimate ==
    /\ est_pc = "returned"
    /\ run = 1
    /\ run' = 2
    /\ result1' = result
    /\ seeds_arg' = seeds_more
    /\ est_pc' = "trials"
    /\ trial' = 0
    /\ total' = 0
    /\ trials' = <<>>
    /\ result' = <<>>
    /\ UNCHANGED <<first, world, seeds_more, mc, celfVars, searchVars,
                   captchaVars>>
    /\ UNCHANGED <<graphVars, argVars, cascadeVars, rngVars>>

\* estimate_spread(G, S, mc, ...) followed by estimate_spread(G, T, mc, ...)
\* with S a non-empty subset of T, all arguments valid.
InitCoupled ==
    /\ PlainGraph
    /\ \E j \in Nodes : \E i \in 1 .. j :
          /\ seeds_arg = AscList(1 .. i)
          /\ seeds_more = AscList(1 .. j)
    /\ mc \in CoupledTrials
    /\ max_steps = MaxSteps
    /\ default_prob \in 0 .. One
    /\ est_pc = "trials"
    /\ trial = 0
    /\ total = 0
    /\ trials = <<>>
    /\ result = <<>>
    /\ seeds = {}
    /\ pc = "idle"
    /\ active = {}
    /\ newly_active = {}
    /\ steps = <<>>
    /\ attempts_next = {}
    /\ rounds = 0
    /\ visited = {}
    /\ attempts = <<>>
    /\ raised = ""
    /\ RngStart
    /\ run = 1
    /\ first = [active |-> {}, steps |-> <<>>]
    /\ world = {}
    /\ result1 = <<>>
    /\ CelfIdle
    /\ CaptchaIdle
    /\ SearchIdle

NextCoupled ==
    \/ StartTrial
    \/ Validate
    \/ LoopHead
    \/ CoupledDraw
    \/ EndRound
    \/ TrialReturn
    \/ EstReturn
    \/ SecondEstimate

SpecCoupled == InitCoupled /\ [][NextCoupled]_vars

\* -------------------------------------------------------------------- celf
\* What one call independent_cascade(G, S, ...) can return as its active
\* set, computed round by round as lines 88-121 do: act is active, new is
\* newly_active, n the rounds range(max_steps) still yields.  A target
\* joins the next frontier when one of the attempts on it succeeds.
RECURSIVE Cascade(_, _, _)
Cascade(act, new, n) ==
    IF ~ (n > 0)
    THEN {act}
    ELSE LET targets == {v \in Nodes \ act :
                            \E u \in new : v \in NeighborsOf(u)}
             Can(v) == \E u \in new : \E r \in Draws :
                          /\ v \in NeighborsOf(u)
                          /\ Succeeds(r, EdgeProb(u, v))
             Must(v) == \E u \in new : \A r \in Draws :
                          /\ v \in NeighborsOf(u)
                          /\ Succeeds(r, EdgeProb(u, v))
             nexts == {N \in SUBSET targets :
                          /\ \A v \in N : Can(v)
                          /\ \A v \in targets : Must(v) => v \in N}
         IN UNION {IF RoundIsEmpty(N)
                   THEN {act}
                   ELSE Cascade(Absorb(act, N), Frontier(act, N), n - 1)
                   : N \in nexts}

\* The active sets a call with the seed set S can return.
CascadeOutcomes(S) == Cascade(InitialActive(S), InitialActive(S), max_steps)

\* The sums of n values of Z.
RECURSIVE Sums(_, _)
Sums(Z, n) ==
    IF n <= 0
    THEN {0}
    ELSE {a + b : a \in Z, b \in Sums(Z, n - 1)}

\* Lines 78-85 for a call with the seed set S.
InvalidCall(S) ==
    \/ S = {}
    \/ ~ (S \subseteq Nodes)
    \/ ~ (0 <= default_prob /\ default_prob <= One)

\* What estimate_spread(G, S, mc=mc, default_prob=default_prob, **kwargs)
\* can do (line 127): with mc < 0 no trial runs and 0 / mc is returned; with
\* mc = 0 the division raises; otherwise the first trial raises on invalid
\* arguments, or the mc trial sizes are summed.  The spread sum / mc is
\* kept as its numerator sum: within one call of celf all spreads and gains
\* have the denominator mc.
SpreadOutcomes(S) ==
    IF mc < 0
    THEN {[err |-> "", sum |-> 0]}
    ELSE IF mc = 0
    THEN {[err |-> "ZeroDivisionError", sum |-> 0]}
    ELSE IF InvalidCall(S)
    THEN {[err |-> "ValueError", sum |-> 0]}
    ELSE {[err |-> "", sum |-> t] :
            t \in Sums({Cardinality(a) : a \in CascadeOutcomes(S)}, mc)}

\* Variant: only the lower bound of k is checked.
InvalidKLowOnly(kk, n) == kk < 1

\* Lines 188-191.
InvalidK(kk, n) == kk < 1 \/ kk > n

\* Variant: the spread is pushed as it is.
HeapKeyPlain(spread) == spread

\* Line 197, line 214: the negated value, for a max-heap.
HeapKey(spread) == 0 - spread

\* Variant: among equal gains the greater node comes first.
TupleLeqNodeDesc(e, f) ==
    \/ e[1] < f[1]
    \/ e[1] = f[1] /\ e[2] > f[2]
    \/ e[1] = f[1] /\ e[2] = f[2] /\ e[3] <= f[3]

\* Order of the tuples (-gain, node, last_eval) in the heap.
TupleLeq(e, f) ==
    \/ e[1] < f[1]
    \/ e[1] = f[1] /\ e[2] < f[2]
    \/ e[1] = f[1] /\ e[2] = f[2] /\ e[3] <= f[3]

\* The item heapq.heappop returns.
HeapMin(q) == CHOOSE e \in q : \A f \in q : TupleLeq(e, f)

\* Variant: the heap is emptied.
HeapPopAll(q) == {}

\* Variant: the item stays in the heap.
HeapPopPeek(q) == q

\* The heap after heapq.heappop.
HeapPop(q) == q \ {HeapMin(q)}

\* Variant: the item is not put back.
HeapPushLost(q, e) == q

\* The heap after heapq.heappush(pq, e).
HeapPush(q, e) == q \cup {e}

\* Variant: no popped gain is taken as current.
FreshNever(last_eval, n) == FALSE

\* Variant: every popped gain is taken as current.
FreshAlways(last_eval, n) == TRUE

\* Line 207: the gain was evaluated with respect to the current seeds.
Fresh(last_eval, n) == last_eval = n

\* Variant: the node is evaluated alone.
EvalSetNodeOnly(l, node) == {node}

\* Line 211: set(seeds + [node]), the seed set of the estimate.
EvalSet(l, node) == Range(l) \cup {node}

\* Line 212: marginal_gain = spread_with_node - spread_S.
MarginalGain(with, sofar) == with - sofar

\* Variant: the running total is replaced by the gain.
AccumulateReplace(sofar, gain) == gain

\* Line 209: spread_S += gain.
Accumulate(sofar, gain) == sofar + gain

\* Variant: the stamp is one behind.
StampBehind(l) == Len(l) - 1

\* Line 214: the entry is stamped with len(seeds).
Stamp(l) == Len(l)

\* An exception leaves celf.
CelfRaise(err) ==
    /\ celf_pc' = "raised"
    /\ raised' = err

\* Lines 188-194: validation of k, then pq = [].
CelfStart ==
    /\ celf_pc = "start"
    /\ IF InvalidK(k, Cardinality(Nodes))
       THEN /\ CelfRaise("ValueError")
            /\ UNCHANGED <<pq, next_node>>
       ELSE /\ celf_pc' = "init"
            /\ pq' = {}
            /\ next_node' = 1
            /\ UNCHANGED raised
    /\ UNCHANGED <<k, celf_seeds, spread_S, estimates, first_gain, celfHist,
                   iter_num>>
    /\ UNCHANGED <<pc, active, newly_active, steps, attempts_next, rounds,
                   visited, attempts>>
    /\ UNCHANGED <<graphVars, argVars, rngVars, replayVars, coupleVars,
                   spreadVars, searchVars,
                   captchaVars>>

\* Lines 195-200: one iteration of `for node in G.nodes()`, or its end.
CelfInit ==
    /\ celf_pc = "init"
    /\ IF next_node \in Nodes
       THEN \E o \in SpreadOutcomes({next_node}) :
               /\ estimates' = estimates + 1
               /\ IF o.err # ""
                  THEN /\ CelfRaise(o.err)
                       /\ UNCHANGED <<pq, next_node, first_gain, basis>>
                  ELSE /\ pq' = HeapPush(pq, <<HeapKey(o.sum), next_node, 0>>)
                       /\ first_gain' = first_gain \cup {<<next_node, o.sum>>}
                       /\ basis' = [basis EXCEPT ![next_node] =
                                        EvalSet(<<>>, next_node) \ {next_node}]
                       /\ next_node' = next_node + 1
                       /\ UNCHANGED <<celf_pc, raised>>
               /\ UNCHANGED <<celf_seeds, spread_S>>
       ELSE /\ celf_seeds' = <<>>
            /\ spread_S' = 0
            /\ celf_pc' = "select"
            /\ UNCHANGED <<pq, next_node, estimates, first_gain, raised, basis>>
    /\ UNCHANGED <<k, stale_pops, recomputed, accepts, iter_num>>
    /\ UNCHANGED <<pc, active, newly_active, steps, attempts_next, rounds,
                   visited, attempts>>
    /\ UNCHANGED <<graphVars, argVars, rngVars, replayVars, coupleVars,
                   spreadVars, searchVars,
                   captchaVars>>

\* Lines 203-214: one iteration of `while len(seeds) < k`.
CelfSelect ==
    /\ celf_pc = "select"
    /\ Len(celf_seeds) < k
    /\ IF pq = {}
       THEN /\ CelfRaise("IndexError")
            /\ UNCHANGED <<pq, celf_seeds, spread_S, estimates, celfHist>>
       ELSE LET e == HeapMin(pq)
                q == HeapPop(pq)
                gain == 0 - e[1]
                node == e[2]
            IN IF Fresh(e[3], Len(celf_seeds))
               THEN /\ celf_seeds' = Append(celf_seeds, node)
                    /\ spread_S' = Accumulate(spread_S, gain)
                    /\ pq' = q
                    /\ accepts' = Append(accepts,
                           [node |-> node, gain |-> gain, stamp |-> e[3],
                            basis |-> basis[node],
                            before |-> Range(celf_seeds)])
                    /\ stale_pops' = 0
                    /\ recomputed' = {}
                    /\ UNCHANGED <<celf_pc, raised, estimates, basis>>
               ELSE \E o \in SpreadOutcomes(EvalSet(celf_seeds, node)) :
                       /\ estimates' = estimates + 1
                       /\ stale_pops' = stale_pops + 1
                       /\ recomputed' = recomputed \cup {node}
                       /\ IF o.err # ""
                          THEN /\ CelfRaise(o.err)
                               /\ pq' = q
                               /\ UNCHANGED basis
                          ELSE /\ pq' = HeapPush(q,
                                        <<HeapKey(MarginalGain(o.sum, spread_S)),
                                          node, Stamp(celf_seeds)>>)
                               /\ basis' = [basis EXCEPT ![node] =
                                               EvalSet(celf_seeds, node) \ {node}]
                               /\ UNCHANGED <<celf_pc, raised>>
                       /\ UNCHANGED <<celf_seeds, spread_S, accepts>>
    /\ UNCHANGED <<k, next_node, first_gain, iter_num>>
    /\ UNCHANGED <<pc, active, newly_active, steps, attempts_next, rounds,
                   visited, attempts>>
    /\ UNCHANGED <<graphVars, argVars, rngVars, replayVars, coupleVars,
                   spreadVars, searchVars,
                   captchaVars>>

\* Line 216.
CelfReturn ==
    /\ celf_pc = "select"
    /\ ~ (Len(celf_seeds) < k)
    /\ celf_pc' = "returned"
    /\ UNCHANGED <<k, pq, celf_seeds, spread_S, next_node, estimates,
                   first_gain, celfHist, iter_num>>
    /\ UNCHANGED <<graphVars, argVars, cascadeVars, rngVars, replayVars,
                   coupleVars, spreadVars, searchVars,
                   captchaVars>>

\* The values of k: below 1, every valid one, and one more than the nodes.
Ks == 0 .. (NumNodes + 1)

\* A call celf(G, k, default_prob=..., mc=..., max_steps=...) on a directed
\* graph (line 137).
InitCelf ==
    /\ PlainGraph
    /\ directed
    /\ k \in Ks
    /\ mc \in TrialCounts
    /\ max_steps \in {1, MaxSteps}
    /\ default_prob \in DefaultProbs
    /\ (0 < default_prob /\ default_prob < One) => mc <= 1
    /\ celf_pc = "start"
    /\ pq = {}
    /\ celf_seeds = <<>>
    /\ spread_S = 0
    /\ next_node = 0
    /\ estimates = 0
    /\ first_gain = {}
    /\ HistStart
    /\ iter_num = 0
    /\ est_pc = "idle"
    /\ seeds_arg = <<>>
    /\ trial = 0
    /\ total = 0
    /\ trials = <<>>
    /\ result = <<>>
    /\ seeds = {}
    /\ pc = "idle"
    /\ active = {}
    /\ newly_active = {}
    /\ steps = <<>>
    /\ attempts_next = {}
    /\ rounds = 0
    /\ visited = {}
    /\ attempts = <<>>
    /\ raised = ""
    /\ RngStart
    /\ run = 1
    /\ first = [active |-> {}, steps |-> <<>>]
    /\ CoupleIdle
    /\ SearchIdle
    /\ CaptchaIdle

NextCelf ==
    \/ CelfStart
    \/ CelfInit
    \/ CelfSelect
    \/ CelfReturn

SpecCelf == InitCelf /\ [][NextCelf]_vars

\* The calls of celf that reach the greedy loop and stay in it: a valid k,
\* at least one trial, a valid default_prob.
InitCelfLoop ==
    /\ InitCelf
    /\ ~ InvalidK(k, Cardinality(Nodes))
    /\ mc >= 1
    /\ ~ InvalidCall(Nodes)

SpecCelfLoop == InitCelfLoop /\ [][NextCelf]_vars

\* -------------------------------------------------------- _celf_deprecated
\* Line 15: max_steps of an independent_cascade call that passes none.
DefaultMaxSteps == 99999

\* The sizes len(active_nodes) a call independent_cascade(G, S, max_steps=n,
\* default_prob=default_prob) can return.
CascadeSizes(S, n) ==
    {Cardinality(a) : a \in Cascade(InitialActive(S), InitialActive(S), n)}

\* Variant: an entry as old as the counter or older is taken as current.
LegacyFreshOrOlder(last_iter, it) == last_iter <= it - 1

\* Line 300: if last_iter == iter_num - 1.
LegacyFresh(last_iter, it) == last_iter = it - 1

\* Lines 278-288: validation of k and default_prob, then pq = [].
LegacyStart ==
    /\ celf_pc = "start"
    /\ IF \/ k < 1
          \/ k > Cardinality(Nodes)
          \/ ~ (0 <= default_prob /\ default_prob <= One)
       THEN /\ CelfRaise("ValueError")
            /\ UNCHANGED <<pq, next_node>>
       ELSE /\ celf_pc' = "init"
            /\ pq' = {}
            /\ next_node' = 1
            /\ UNCHANGED raised
    /\ UNCHANGED <<k, celf_seeds, spread_S, estimates, first_gain, celfHist,
                   iter_num>>
    /\ UNCHANGED <<pc, active, newly_active, steps, attempts_next, rounds,
                   visited, attempts>>
    /\ UNCHANGED <<graphVars, argVars, rngVars, replayVars, coupleVars,
                   spreadVars, searchVars, captchaVars>>

\* Lines 289-295: one iteration of `for node in G.nodes()`, with one cascade
\* from the node, or the end of the loop.
LegacyInit ==
    /\ celf_pc = "init"
    /\ IF next_node \in Nodes
       THEN \E spread \in CascadeSizes({next_node}, max_steps) :
               /\ estimates' = estimates + 1
               /\ pq' = HeapPush(pq, <<HeapKey(spread), next_node, 0>>)
               /\ first_gain' = first_gain \cup {<<next_node, spread>>}
               /\ basis' = [basis EXCEPT ![next_node] = {}]
               /\ next_node' = next_node + 1
               /\ UNCHANGED <<celf_pc, celf_seeds, iter_num>>
       ELSE /\ celf_seeds' = <<>>
            /\ iter_num' = 1
            /\ celf_pc' = "select"
            /\ UNCHANGED <<pq, next_node, estimates, first_gain, basis>>
    /\ UNCHANGED <<k, spread_S, stale_pops, recomputed, accepts, raised>>
    /\ UNCHANGED <<pc, active, newly_active, steps, attempts_next, rounds,
                   visited, attempts>>
    /\ UNCHANGED <<graphVars, argVars, rngVars, replayVars, coupleVars,
                   spreadVars, searchVars, captchaVars>>

\* Lines 297-312: one iteration of `while len(seeds) < k`.  The two
\* cascades of a re-evaluation are called without max_steps.  The loop is
\* followed for MaxPops pops.
LegacySelect ==
    /\ celf_pc = "select"
    /\ Len(celf_seeds) < k
    /\ iter_num <= MaxPops
    /\ pq # {}
    /\ LET e == HeapMin(pq)
           q == HeapPop(pq)
           node == e[2]
       IN IF LegacyFresh(e[3], iter_num)
          THEN /\ celf_seeds' = Append(celf_seeds, node)
               /\ pq' = q
               /\ accepts' = Append(accepts,
                      [node |-> node, gain |-> 0 - e[1], stamp |-> e[3],
                       basis |-> basis[node], before |-> Range(celf_seeds)])
               /\ stale_pops' = 0
               /\ recomputed' = {}
               /\ UNCHANGED <<estimates, basis>>
          ELSE \E len \in CascadeSizes(EvalSet(celf_seeds, node),
                                       DefaultMaxSteps)
                             \X CascadeSizes(Range(celf_seeds),
                                             DefaultMaxSteps) :
                  /\ estimates' = estimates + 2
                  /\ stale_pops' = stale_pops + 1
                  /\ recomputed' = recomputed \cup {node}
                  /\ pq' = HeapPush(q, <<HeapKey(MarginalGain(len[1], len[2])),
                                         node, iter_num - 1>>)
                  /\ basis' = [basis EXCEPT ![node] = Range(celf_seeds)]
                  /\ UNCHANGED <<celf_seeds, accepts>>
    /\ iter_num' = iter_num + 1
    /\ UNCHANGED <<celf_pc, k, spread_S, next_node, first_gain, raised>>
    /\ UNCHANGED <<pc, active, newly_active, steps, attempts_next, rounds,
                   visited, attempts>>
    /\ UNCHANGED <<graphVars, argVars, rngVars, replayVars, coupleVars,
                   spreadVars, searchVars, captchaVars>>

\* A call _celf_deprecated(G, k, default_prob=..., max_steps=...) on a
\* directed graph.  Calls whose cascades are random ask for at most two seeds
\* and pass max_steps = MaxSteps.
InitLegacy ==
    /\ InitCelf
    /\ mc = 1
    /\ (0 < default_prob /\ default_prob < One)
          => (k <= 2 /\ max_steps = MaxSteps)

NextLegacy ==
    \/ LegacyStart
    \/ LegacyInit
    \/ LegacySelect
    \/ CelfReturn

SpecLegacy == InitLegacy /\ [][NextLegacy]_vars

\* The loop keeps running while it can.
SpecLegacyFair == SpecLegacy /\ WF_vars(NextLegacy)

\* ------------------------------- search_urls, provider google, multi_window
\* Result pages hold per_page results.
PerPage == 10

Sites == 1 .. MaxSites

\* The href values a result page can carry: a link to a site, a Google
\* redirect google.com/url?q=<link to a site>, a Google internal link.
RawUrls ==
    ({"site", "redirect"} \X Sites) \cup {<<"internal", 0>>}

\* _clean_search_result_url(raw, "google"): the set holding the cleaned
\* URL, empty for None.
CleanUrl(raw) ==
    IF raw[1] = "redirect"
    THEN {<<"site", raw[2]>>}
    ELSE IF raw[1] = "internal"
    THEN {}
    ELSE {raw}

\* Lines 665-671: page_urls of the extracted items l.
RECURSIVE CleanAll(_)
CleanAll(l) ==
    IF l = <<>>
    THEN <<>>
    ELSE LET c == CleanUrl(Head(l))
         IN (IF c = {} THEN <<>> ELSE <<CHOOSE u \in c : TRUE>>)
            \o CleanAll(Tail(l))

\* _unique_preserve_order, with the list unique built so far.
RECURSIVE UniqueFrom(_, _)
UniqueFrom(items, unique) ==
    IF items = <<>>
    THEN unique
    ELSE UniqueFrom(Tail(items),
                    IF Head(items) \in Range(unique)
                    THEN unique
                    ELSE Append(unique, Head(items)))

UniquePreserveOrder(items) == UniqueFrom(items, <<>>)

\* l[:n] for n >= 0.
Trim(l, n) == SubSeq(l, 1, IF n < Len(l) THEN n ELSE Len(l))

\* max(1, n)
AtLeastOne(n) == IF n < 1 THEN 1 ELSE n

\* Line 570.
ImpliedPages(n) == AtLeastOne((n + PerPage - 1) \div PerPage)

\* Line 571.
PagesFor(n, mp) ==
    IF mp = <<>>
    THEN ImpliedPages(n)
    ELSE AtLeastOne(IF mp[1] < ImpliedPages(n) THEN mp[1] ELSE ImpliedPages(n))

\* What the crawler hands back for one result page: None, or a result whose
\* extracted content lists at most MaxPageLen links.  Pages are taken to
\* show no CAPTCHA and to carry extracted content.
PageLists == UNION {[1 .. n -> RawUrls] : n \in 0 .. MaxPageLen}
PageResults ==
    {[ok |-> FALSE, urls |-> <<>>]} \cup {[ok |-> TRUE, urls |-> l] : l \in PageLists}

\* Lines 378-379, 554, 569-585: the early return, pages and the page URLs.
SearchStart ==
    /\ search_pc = "start"
    /\ IF max_results <= 0
       THEN /\ found' = <<>>
            /\ search_pc' = "returned"
            /\ UNCHANGED <<pages, collected>>
       ELSE /\ pages' = PagesFor(max_results, max_paginate)
            /\ collected' = <<>>
            /\ search_pc' = "fetch"
            /\ UNCHANGED found
    /\ UNCHANGED <<max_results, max_paginate, results, page_i, page_result>>
    /\ UNCHANGED <<graphVars, argVars, cascadeVars, rngVars, replayVars,
                   coupleVars, spreadVars, celfVars,
                   captchaVars>>

\* Lines 591-609: arun_many returns one result for each page URL, in the
\* order of the URLs.
SearchFetch ==
    /\ search_pc = "fetch"
    /\ results' \in [1 .. pages -> PageResults]
    /\ page_i' = 0
    /\ search_pc' = "loop"
    /\ UNCHANGED <<max_results, max_paginate, pages, page_result, collected,
                   found>>
    /\ UNCHANGED <<graphVars, argVars, cascadeVars, rngVars, replayVars,
                   coupleVars, spreadVars, celfVars,
                   captchaVars>>

\* Lines 611-660: one iteration of `for i, result in enumerate(results)`,
\* whose body only handles a CAPTCHA, or the end of the loop.
SearchLoop ==
    /\ search_pc = "loop"
    /\ IF page_i < Len(results)
       THEN /\ page_result' = results[page_i + 1]
            /\ page_i' = page_i + 1
            /\ UNCHANGED search_pc
       ELSE /\ search_pc' = "extract"
            /\ UNCHANGED <<page_result, page_i>>
    /\ UNCHANGED <<max_results, max_paginate, pages, results, collected,
                   found>>
    /\ UNCHANGED <<graphVars, argVars, cascadeVars, rngVars, replayVars,
                   coupleVars, spreadVars, celfVars,
                   captchaVars>>

\* Lines 662-694, after the loop: the links of result are cleaned and added
\* to collected.
SearchExtract ==
    /\ search_pc = "extract"
    /\ collected' = IF page_result.ok
                    THEN collected \o CleanAll(page_result.urls)
                    ELSE collected
    /\ search_pc' = "return"
    /\ UNCHANGED <<max_results, max_paginate, pages, results, page_i,
                   page_result, found>>
    /\ UNCHANGED <<graphVars, argVars, cascadeVars, rngVars, replayVars,
                   coupleVars, spreadVars, celfVars,
                   captchaVars>>

\* Lines 701-702.
SearchReturn ==
    /\ search_pc = "return"
    /\ found' = Trim(UniquePreserveOrder(collected), max_results)
    /\ search_pc' = "returned"
    /\ UNCHANGED <<max_results, max_paginate, pages, results, page_i,
                   page_result, collected>>
    /\ UNCHANGED <<graphVars, argVars, cascadeVars, rngVars, replayVars,
                   coupleVars, spreadVars, celfVars,
                   captchaVars>>

\* A call search_urls(keyword, provider="google", max_results=...,
\* max_paginate=..., pagination_mode="multi_window").
InitSearch ==
    /\ max_results \in {0, 1, 2, PerPage + 1}
    /\ max_paginate \in {<<>>} \cup {<<n>> : n \in 0 .. 2}
    /\ search_pc = "start"
    /\ pages = 0
    /\ results = <<>>
    /\ page_i = 0
    /\ page_result = [ok |-> FALSE, urls |-> <<>>]
    /\ collected = <<>>
    /\ found = <<>>
    /\ edges = {}
    /\ attr = NoAttribute
    /\ directed = TRUE
    /\ seeds = {}
    /\ max_steps = 0
    /\ default_prob = 0
    /\ pc = "idle"
    /\ active = {}
    /\ newly_active = {}
    /\ steps = <<>>
    /\ attempts_next = {}
    /\ rounds = 0
    /\ visited = {}
    /\ attempts = <<>>
    /\ raised = ""
    /\ RngStart
    /\ run = 1
    /\ first = [active |-> {}, steps |-> <<>>]
    /\ est_pc = "idle"
    /\ seeds_arg = <<>>
    /\ mc = 0
    /\ trial = 0
    /\ total = 0
    /\ trials = <<>>
    /\ result = <<>>
    /\ CoupleIdle
    /\ CelfIdle
    /\ CaptchaIdle

NextSearch ==
    \/ SearchStart
    \/ SearchFetch
    \/ SearchLoop
    \/ SearchExtract
    \/ SearchReturn

SpecSearch == InitSearch /\ [][NextSearch]_vars

\* -------------------------------------------- CaptchaDetector.handle_captcha
\* Line 201: seconds between two polls.
WaitInterval == 5

\* handle_captcha returns the value v.
CaptchaReturn(v, how) ==
    /\ cap_result' = <<v>>
    /\ handled' = how
    /\ cap_pc' = "returned"

\* Lines 177-196: no CAPTCHA returns True at once; otherwise the headless
\* branch waits for input() and the other branch starts polling.
CaptchaStart ==
    /\ cap_pc = "start"
    /\ IF ~ is_captcha
       THEN CaptchaReturn(TRUE, "none")
       ELSE /\ cap_pc' = IF headless THEN "input" ELSE "poll"
            /\ UNCHANGED <<cap_result, handled>>
    /\ waited_time' = 0
    /\ UNCHANGED <<is_captcha, headless, max_wait_time, can_check, polls>>
    /\ UNCHANGED <<graphVars, argVars, cascadeVars, rngVars, replayVars,
                   coupleVars, spreadVars, celfVars, searchVars>>

\* Lines 186-194: the user presses Enter, or interrupts (KeyboardInterrupt).
CaptchaInput ==
    /\ cap_pc = "input"
    /\ \/ CaptchaReturn(TRUE, "confirmed")
       \/ CaptchaReturn(FALSE, "cancelled")
    /\ UNCHANGED <<is_captcha, headless, max_wait_time, can_check,
                   waited_time, polls>>
    /\ UNCHANGED <<graphVars, argVars, cascadeVars, rngVars, replayVars,
                   coupleVars, spreadVars, celfVars, searchVars>>

\* Lines 204-224: one iteration of `while waited_time < max_wait_time`: the
\* sleep, then, when a crawler, a URL and a config were given, a re-check
\* that may find the page no longer a CAPTCHA page.
CaptchaPoll ==
    /\ cap_pc = "poll"
    /\ waited_time < max_wait_time
    /\ waited_time' = waited_time + WaitInterval
    /\ polls' = polls + 1
    /\ \/ /\ can_check
          /\ CaptchaReturn(TRUE, "rechecked")
       \/ UNCHANGED <<cap_pc, cap_result, handled>>
    /\ UNCHANGED <<is_captcha, headless, max_wait_time, can_check>>
    /\ UNCHANGED <<graphVars, argVars, cascadeVars, rngVars, replayVars,
                   coupleVars, spreadVars, celfVars, searchVars>>

\* Lines 226-227: the loop ended with the CAPTCHA unsolved.
CaptchaTimeout ==
    /\ cap_pc = "poll"
    /\ ~ (waited_time < max_wait_time)
    /\ CaptchaReturn(TRUE, "timeout")
    /\ UNCHANGED <<is_captcha, headless, max_wait_time, can_check,
                   waited_time, polls>>
    /\ UNCHANGED <<graphVars, argVars, cascadeVars, rngVars, replayVars,
                   coupleVars, spreadVars, celfVars, searchVars>>

\* A call handle_captcha(is_captcha, ..., headless, max_wait_time, crawler,
\* retry_url, retry_config).
InitCaptcha ==
    /\ is_captcha \in BOOLEAN
    /\ headless \in BOOLEAN
    /\ can_check \in BOOLEAN
    /\ max_wait_time \in (0 - 1) .. MaxWait
    /\ cap_pc = "start"
    /\ waited_time = 0
    /\ polls = 0
    /\ handled = ""
    /\ cap_result = <<>>
    /\ edges = {}
    /\ attr = NoAttribute
    /\ directed = TRUE
    /\ seeds = {}
    /\ max_steps = 0
    /\ default_prob = 0
    /\ pc = "idle"
    /\ active = {}
    /\ newly_active = {}
    /\ steps = <<>>
    /\ attempts_next = {}
    /\ rounds = 0
    /\ visited = {}
    /\ attempts = <<>>
    /\ raised = ""
    /\ RngStart
    /\ run = 1
    /\ first = [active |-> {}, steps |-> <<>>]
    /\ est_pc = "idle"
    /\ seeds_arg = <<>>
    /\ mc = 0
    /\ trial = 0
    /\ total = 0
    /\ trials = <<>>
    /\ result = <<>>
    /\ CoupleIdle
    /\ CelfIdle
    /\ SearchIdle

NextCaptcha ==
    \/ CaptchaStart
    \/ CaptchaInput
    \/ CaptchaPoll
    \/ CaptchaTimeout

SpecCaptcha == InitCaptcha /\ [][NextCaptcha]_vars

TypeOK ==
    /\ pc \in {"idle", "call", "for", "round", "returned", "raised"}
    /\ est_pc \in {"idle", "trials", "in_trial", "returned", "raised"}
    /\ active \subseteq Nodes
    /\ newly_active \subseteq active
    /\ \A i \in 1 .. Len(steps) : steps[i] \subseteq Nodes
    /\ attempts_next \subseteq Nodes
    /\ rounds \in 0 .. MaxSteps
    /\ raised \in {"", "ValueError", "ZeroDivisionError", "IndexError"}
    /\ celf_pc \in {"idle", "start", "init", "select", "returned", "raised"}
    /\ Len(celf_seeds) <= NumNodes
    /\ \A e \in pq : e[2] \in Nodes /\ e[3] \in Nat
    /\ trial \in 0 .. MaxTrials

\* ------------------------------------------------- properties of one call
Returned == pc = "returned"

Max(a, b) == IF a >= b THEN a ELSE b

\* C1: the active set returned by independent_cascade is a superset of the
\* seed set, for every graph, every valid seed set, every sequence of draws
\* and every max_steps.
SeedsStayActive == Returned => seeds \subseteq active

\* A call that returned after activating a node that is no seed.
SeedsStayActiveWitness ==
    /\ Returned
    /\ seeds \subseteq active
    /\ active # seeds

\* C2: each snapshot of the step history is a superset of the one before it,
\* the first snapshot is the seed set and, on return, the last snapshot is
\* the returned active set.
HistoryGrows ==
    pc \in {"for", "round", "returned"} =>
        /\ Len(steps) >= 1
        /\ steps[1] = seeds
        /\ \A i \in 1 .. (Len(steps) - 1) : steps[i] \subseteq steps[i + 1]
        /\ steps[Len(steps)] = active

\* A returned call whose history holds three snapshots.
HistoryGrowsWitness ==
    /\ Returned
    /\ Len(steps) = 3
    /\ steps[1] # steps[2]
    /\ steps[2] # steps[3]

\* C3 as stated: the history has length 1 + the number of rounds executed,
\* which is at most max_steps + 1.  It is stated here for max_steps >= 0
\* only, where max_steps counts rounds; a negative max_steps runs no round
\* and returns a history of length 1.
HistoryLengthCountsRounds ==
    (Returned /\ max_steps >= 0) => /\ Len(steps) = 1 + rounds
                                    /\ Len(steps) <= max_steps + 1

\* The call ended by a round that activated nothing (the break of line 116).
EndedByBreak == rounds >= 1 /\ attempts_next = {}

\* C3 amended: the history has length 1 + the number of rounds that
\* activated a node.  The round that activates nothing is executed and adds
\* no snapshot, so the length is the number of rounds executed when the call
\* ends by such a round and one more when it ends by exhausting max_steps;
\* the length is at most max(max_steps, 0) + 1.
HistoryLengthCountsProductiveRounds ==
    Returned => /\ Len(steps) = IF EndedByBreak THEN rounds ELSE 1 + rounds
                /\ rounds <= Max(max_steps, 0)
                /\ Len(steps) <= Max(max_steps, 0) + 1

\* A call that ran a productive round and then ended by an empty round.
HistoryLengthWitness ==
    /\ Returned
    /\ EndedByBreak
    /\ rounds = 2
    /\ Len(steps) = 2

\* The argument errors of the docstring, stated on the arguments.
BadArguments ==
    \/ seeds = {}
    \/ \E s \in seeds : s \notin Nodes
    \/ default_prob < 0
    \/ default_prob > One

\* C4: a call with an empty seed set, a seed outside the graph or a
\* default_prob outside [0, 1] ends with ValueError, before any random draw
\* and without any active set or history.
BadArgumentsRaise ==
    BadArguments =>
        /\ pc \in {"call", "raised"}
        /\ pc = "raised" => raised = "ValueError"
        /\ attempts = <<>>
        /\ active = {}
        /\ steps = <<>>

\* A call on a graph with edges, with valid seeds and default_prob above 1,
\* that has raised.
BadArgumentsRaiseWitness ==
    /\ pc = "raised"
    /\ raised = "ValueError"
    /\ seeds # {}
    /\ seeds \subseteq Nodes
    /\ default_prob > One
    /\ \E e \in edges : e[1] \in seeds

\* Attempts a and b are on the same edge; an undirected edge is one edge in
\* both directions.
SameEdge(a, b) ==
    \/ a.u = b.u /\ a.v = b.v
    \/ ~ directed /\ a.u = b.v /\ a.v = b.u

\* C5: within one call no edge (u, v) is attempted twice, in whatever rounds
\* and from whatever frontier nodes.
EdgeAttemptedOnce ==
    \A i, j \in 1 .. Len(attempts) :
        SameEdge(attempts[i], attempts[j]) => i = j

\* Two frontier nodes attempted the same inactive node in the same round of
\* a call that went on to a second round.
EdgeAttemptedOnceWitness ==
    /\ rounds = 2
    /\ \E i, j \in 1 .. Len(attempts) :
         /\ attempts[i].v = attempts[j].v
         /\ attempts[i].u # attempts[j].u
         /\ attempts[i].round = attempts[j].round

\* C6: an attempt on an edge without the probability attribute uses
\* default_prob and raises nothing; an attempt on an edge with the
\* attribute uses the edge's own value.
AttemptProbability ==
    \A i \in 1 .. Len(attempts) :
        LET a == attempts[i]
            e == <<a.u, a.v>>
        IN  /\ e \in DOMAIN attr => a.p = attr[e]
            /\ e \notin DOMAIN attr => a.p = default_prob
            /\ raised = ""

\* A call that attempted an edge without the attribute and an edge whose
\* attribute differs from default_prob.
AttemptProbabilityWitness ==
    /\ \E i \in 1 .. Len(attempts) :
         <<attempts[i].u, attempts[i].v>> \notin DOMAIN attr
    /\ \E i \in 1 .. Len(attempts) :
         /\ <<attempts[i].u, attempts[i].v>> \in DOMAIN attr
         /\ attr[<<attempts[i].u, attempts[i].v>>] # default_prob

\* C7: the step that ends a round returns at once, leaving the active set
\* and the history alone, when the round activated nothing; otherwise it
\* adds exactly the round's activated nodes to the active set and appends
\* exactly one snapshot, the new active set.
RoundEnd ==
    [][ (pc = "round" /\ pc' # "round") =>
          IF attempts_next = {}
          THEN /\ pc' = "returned"
               /\ active' = active
               /\ steps' = steps
          ELSE /\ pc' = "for"
               /\ active' \ active = attempts_next
               /\ active \subseteq active'
               /\ steps' = Append(steps, active') ]_vars

\* A call that returned by an empty round before max_steps rounds were run,
\* after a round that activated a node.
RoundEndWitness ==
    /\ Returned
    /\ rounds < max_steps
    /\ Len(steps) = 2
    /\ attempts_next = {}

\* C8: when no seed has an outgoing edge the call returns the seed set as
\* active set and a history of length 1.
NoSeedOutEdge == \A e \in edges : e[1] \notin seeds

IsolatedSeeds ==
    (Returned /\ NoSeedOutEdge) => /\ active = seeds
                                   /\ Len(steps) = 1

\* A returned call with max_steps >= 1 on a graph whose edges all leave
\* nodes that are no seeds, one of them entering a seed.
IsolatedSeedsWitness ==
    /\ Returned
    /\ NoSeedOutEdge
    /\ max_steps >= 1
    /\ \E e \in edges : e[2] \in seeds
    /\ default_prob = One

RECURSIVE SumSizes(_)
SumSizes(t) == IF t = <<>> THEN 0 ELSE t[1].size + SumSizes(Tail(t))

\* The argument errors of a trial, stated on estimate_spread's arguments.
SpreadBadArguments ==
    \/ seeds_arg = <<>>
    \/ \E i \in 1 .. Len(seeds_arg) : seeds_arg[i] \notin Nodes
    \/ default_prob < 0
    \/ default_prob > One

\* C10: for mc >= 1 estimate_spread runs exactly mc trials, each on the set
\* of the listed seeds, and returns the sum of the trials' active-set sizes
\* divided by mc, a value between the number of distinct seeds and the number
\* of graph nodes; with valid arguments it does not raise.
SpreadIsMean ==
    /\ (est_pc = "returned" /\ mc >= 1) =>
          /\ Len(trials) = mc
          /\ \A i \in 1 .. Len(trials) : trials[i].seeds = Range(seeds_arg)
          /\ result = <<SumSizes(trials), mc>>
          /\ Cardinality(Range(seeds_arg)) * result[2] <= result[1]
          /\ result[1] <= NumNodes * result[2]
    /\ (est_pc = "raised" /\ mc >= 1) => SpreadBadArguments

\* estimate_spread returned after two trials on a list that names one seed
\* twice, and the two trials activated different numbers of nodes.
SpreadIsMeanWitness ==
    /\ est_pc = "returned"
    /\ mc = 2
    /\ Len(seeds_arg) = 2
    /\ Cardinality(Range(seeds_arg)) = 1
    /\ trials[1].size # trials[2].size

\* C11: estimate_spread called with mc < 1 ends with an error and returns no
\* spread value.
NoTrialsIsAnError ==
    mc < 1 => /\ est_pc # "returned"
              /\ result = <<>>

\* C12: when estimate_spread is evaluated for a seed set and for a superset
\* of it on the same edge outcomes, the estimate for the superset is not
\* smaller.
SpreadMonotone ==
    (run = 2 /\ est_pc = "returned")
        => result1[1] * result[2] <= result[1] * result1[2]

\* Both estimates returned, a random edge outcome was shared by the two
\* calls, and the larger seed set reached strictly more nodes.
SpreadMonotoneWitness ==
    /\ run = 2
    /\ est_pc = "returned"
    /\ default_prob = One \div 2
    /\ \E w \in world : w[4] < default_prob
    /\ \E w \in world : ~ (w[4] < default_prob)
    /\ result1[1] < result[1]

\* C13: the trials of estimate_spread share no mutable state: the generator
\* state a running trial reads was written by that trial alone, that is, the
\* stream has advanced by exactly the draws of the running trial.
TrialsShareNoState ==
    est_pc = "in_trial" => tpos = Len(attempts)

\* The active set of every returned call of independent_cascade is one of
\* CascadeOutcomes: the round-by-round operator celf's estimates are taken
\* from covers the step-by-step cascade.
CascadeCovered ==
    pc = "returned" => active \in CascadeOutcomes(seeds)

\* celf was called with a valid k, at least one trial and a valid
\* default_prob.
ValidCelfCall ==
    /\ ~ (k < 1 \/ k > NumNodes)
    /\ mc >= 1
    /\ 0 <= default_prob /\ default_prob <= One

CelfReturned == celf_pc = "returned"

Distinct(l) == \A i, j \in 1 .. Len(l) : l[i] = l[j] => i = j

\* C14: for every k with 1 <= k <= number of nodes, celf does not fail and
\* what it returns is a list of exactly k pairwise-distinct graph nodes.
CelfReturnsKDistinct ==
    /\ ValidCelfCall => celf_pc # "raised"
    /\ (CelfReturned /\ 1 <= k /\ k <= NumNodes)
          => /\ Len(celf_seeds) = k
             /\ Distinct(celf_seeds)
             /\ Range(celf_seeds) \subseteq Nodes

\* celf returned two seeds after re-evaluating a stale gain, on estimates
\* that are random.
CelfReturnsKDistinctWitness ==
    /\ CelfReturned
    /\ k = 2
    /\ Len(celf_seeds) = 2
    /\ estimates > NumNodes
    /\ 0 < default_prob /\ default_prob < One
    /\ edges # {}

\* C15: celf called with k < 1 or k greater than the number of nodes fails
\* with ValueError, and no spread was estimated, no cascade simulated and no
\* random value drawn before.
BadKRaises ==
    (k < 1 \/ k > NumNodes)
        => /\ celf_pc \in {"start", "raised"}
           /\ celf_pc = "raised" => raised = "ValueError"
           /\ estimates = 0
           /\ pc = "idle" /\ est_pc = "idle" /\ tpos = 0

\* celf failed on a k greater than the number of nodes.
BadKRaisesWitness ==
    /\ k > NumNodes
    /\ celf_pc = "raised"
    /\ raised = "ValueError"

\* C16: celf called with a default_prob outside [0, 1] fails with ValueError:
\* it returns no seed list and fails with no other error.
BadDefaultProbRaises ==
    ~ (0 <= default_prob /\ default_prob <= One)
        => /\ ~ CelfReturned
           /\ celf_pc = "raised" => raised = "ValueError"

\* The initial estimate of node v (its numerator).
FirstGain(v) == CHOOSE g \in {e[2] : e \in {f \in first_gain : f[1] = v}} : TRUE

\* C17: celf with k = 1 returns the single node whose initial estimate is
\* the greatest, after exactly one estimate per node.
CelfOneIsBest ==
    (CelfReturned /\ k = 1)
        => /\ Len(celf_seeds) = 1
           /\ estimates = NumNodes
           /\ \A v \in Nodes : FirstGain(v) <= FirstGain(celf_seeds[1])

\* celf returned for k = 1 a node other than the first one, which had a
\* strictly smaller estimate.
CelfOneIsBestWitness ==
    /\ CelfReturned
    /\ k = 1
    /\ Len(celf_seeds) = 1
    /\ celf_seeds[1] # 1
    /\ FirstGain(1) < FirstGain(celf_seeds[1])

\* C18: celf with k equal to the number of nodes does not fail, and the list
\* it returns contains every node exactly once.
CelfAllNodes ==
    k = NumNodes
        => /\ ValidCelfCall => celf_pc # "raised"
           /\ CelfReturned => /\ Range(celf_seeds) = Nodes
                               /\ Len(celf_seeds) = NumNodes

\* celf returned all nodes, having put re-evaluated nodes back on the heap.
CelfAllNodesWitness ==
    /\ CelfReturned
    /\ k = NumNodes
    /\ Range(celf_seeds) = Nodes
    /\ estimates > NumNodes + 1
    /\ edges # {}

\* Every estimate is exact: each edge has probability 0 or 1, so every trial
\* returns the same active set.
ExactEstimates ==
    /\ mc >= 1
    /\ default_prob \in {0, One}

\* The exact spread of the seed set S.
ExactSpread(S) == CHOOSE c \in {Cardinality(a) : a \in CascadeOutcomes(S)} : TRUE

\* The first n picks of the greedy algorithm that re-evaluates the marginal
\* gain of every remaining node in every round and picks the maximum, the
\* smaller node on equal gains.
RECURSIVE Greedy(_)
Greedy(n) ==
    IF n = 0
    THEN <<>>
    ELSE LET prev == Greedy(n - 1)
             S == Range(prev)
             Gain(v) == ExactSpread(S \cup {v}) - (IF S = {} THEN 0 ELSE ExactSpread(S))
             best == CHOOSE v \in Nodes \ S : \A w \in Nodes \ S :
                        \/ Gain(v) > Gain(w)
                        \/ Gain(v) = Gain(w) /\ v <= w
         IN Append(prev, best)

\* C19: with exact estimates the list celf returns is the list of the greedy
\* algorithm that re-evaluates every remaining node in every round.
CelfIsGreedy ==
    (CelfReturned /\ ExactEstimates /\ 1 <= k /\ k <= NumNodes)
        => celf_seeds = Greedy(k)

\* celf returned the greedy list where the second pick is not the node with
\* the second greatest initial estimate.
CelfIsGreedyWitness ==
    /\ CelfReturned
    /\ ExactEstimates
    /\ k >= 2
    /\ celf_seeds = Greedy(k)
    /\ \E v \in Nodes \ {celf_seeds[1], celf_seeds[2]} :
          FirstGain(v) > FirstGain(celf_seeds[2])

\* The cleaned links of all the pages fetched, in page order.
RECURSIVE AllPages(_)
AllPages(n) ==
    IF n = 0
    THEN <<>>
    ELSE AllPages(n - 1) \o (IF results[n].ok
                             THEN CleanAll(results[n].urls)
                             ELSE <<>>)

\* C20: search_urls for google in multi_window mode returns the cleaned links
\* of every fetched page, in page order, without duplicates (first
\* occurrence kept) and cut to max_results entries.
SearchCollectsAllPages ==
    (search_pc = "returned" /\ max_results > 0)
        => found = Trim(UniquePreserveOrder(AllPages(Len(results))),
                        max_results)

\* C21: handle_captcha returns True exactly when no CAPTCHA was detected, the
\* user confirmed, or a re-check found the CAPTCHA gone, and False otherwise,
\* in particular after a timeout; it polls at most ceil(max_wait_time / 5)
\* times.
HandleCaptchaResult ==
    cap_pc = "returned"
        => /\ cap_result = <<TRUE>>
                <=> handled \in {"none", "confirmed", "rechecked"}
           /\ polls > 0 => (polls - 1) * WaitInterval < max_wait_time

InLoop == celf_pc \in {"select", "returned"}

\* The seeds selected before the i-th acceptance.
SeedsBefore(i) == Range(SubSeq(celf_seeds, 1, i - 1))

\* C22: a node is appended only when the stamp of its popped entry equals
\* the number of seeds selected so far, and an entry whose stamp equals that
\* number carries a gain computed against exactly the current selected set.
FreshMeansCurrent ==
    /\ \A i \in 1 .. Len(accepts) :
          /\ accepts[i].stamp = i - 1
          /\ accepts[i].before = SeedsBefore(i)
          /\ accepts[i].basis = accepts[i].before
    /\ celf_pc = "select"
          => \A e \in pq : e[3] = Len(celf_seeds)
                              => basis[e[2]] = Range(celf_seeds)

\* A second seed was accepted after re-evaluating a stale entry.
FreshMeansCurrentWitness ==
    /\ Len(accepts) >= 2
    /\ accepts[2].stamp = 1
    /\ accepts[2].basis = {celf_seeds[1]}
    /\ estimates > NumNodes

\* The entry the next pop takes is stale.
StaleTop ==
    /\ celf_pc = "select"
    /\ Len(celf_seeds) < k
    /\ pq # {}
    /\ HeapMin(pq)[3] # Len(celf_seeds)

\* C23: popping a stale entry leaves the selected list and the running total
\* unchanged and puts exactly one new entry for the same node back, stamped
\* with the current number of selected seeds.
StalePopFrame ==
    [][(StaleTop /\ celf_pc' = "select")
         => /\ celf_seeds' = celf_seeds
            /\ spread_S' = spread_S
            /\ Cardinality(pq') = Cardinality(pq)
            /\ \E f \in pq' :
                  /\ f[2] = HeapMin(pq)[2]
                  /\ f[3] = Len(celf_seeds)
                  /\ pq' = (pq \ {HeapMin(pq)}) \cup {f}]_vars

\* A stale entry was popped and its node is back in the queue, re-stamped.
StalePopFrameWitness ==
    /\ celf_pc = "select"
    /\ stale_pops >= 1
    /\ Len(celf_seeds) >= 1
    /\ \E e \in pq : e[2] \in recomputed /\ e[3] = Len(celf_seeds)

\* C24: between two acceptances each queued node is re-evaluated at most
\* once, so at most (number of nodes - number selected) stale pops precede
\* an acceptance, and the loop ends with k accepted seeds.
StalePopsBounded ==
    InLoop
        => /\ stale_pops = Cardinality(recomputed)
           /\ stale_pops <= NumNodes - Len(celf_seeds)
           /\ Len(celf_seeds) <= k
           /\ celf_pc = "returned" => Len(celf_seeds) = k

\* Every queued node was re-evaluated since the last acceptance.
StalePopsBoundedWitness ==
    /\ celf_pc = "select"
    /\ Len(celf_seeds) >= 1
    /\ stale_pops >= 2
    /\ stale_pops = NumNodes - Len(celf_seeds)

\* The entries of node n in the queue.
EntriesOf(n) == {e \in pq : e[2] = n}

\* C25: in the greedy loop every node is either selected or has exactly one
\* queue entry, never both; the queue is not empty at a pop and its size
\* plus the number of selected seeds is the number of nodes.
QueuePartition ==
    celf_pc = "select"
        => /\ \A n \in Nodes :
                 IF n \in Range(celf_seeds)
                 THEN EntriesOf(n) = {}
                 ELSE Cardinality(EntriesOf(n)) = 1
           /\ Cardinality(pq) + Len(celf_seeds) = NumNodes
           /\ Len(celf_seeds) < k => pq # {}

\* In the loop with one seed selected and a re-evaluated entry queued.
QueuePartitionWitness ==
    /\ celf_pc = "select"
    /\ Len(celf_seeds) = 1
    /\ Len(celf_seeds) < k
    /\ stale_pops = 1
    /\ Cardinality(pq) = NumNodes - 1

RECURSIVE SumGains(_)
SumGains(l) == IF l = <<>> THEN 0 ELSE l[1].gain + SumGains(Tail(l))

\* mc times the exact spread of S, 0 for no seeds: the numerator of
\* estimate_spread(G, S) when estimates are exact.
ExactSum(S) == IF S = {} THEN 0 ELSE mc * ExactSpread(S)

\* C26: the running total is the sum of the gains of the accepted seeds;
\* with exact estimates it is the spread of the selected list, and the gain
\* queued for a re-evaluated node is spread(selected + node) -
\* spread(selected).
RunningTotal ==
    InLoop
        => /\ spread_S = SumGains(accepts)
           /\ ExactEstimates
                 => /\ spread_S = ExactSum(Range(celf_seeds))
                    /\ \A e \in pq : e[2] \in recomputed
                          => 0 - e[1] = ExactSum(Range(celf_seeds) \cup {e[2]})
                                          - ExactSum(Range(celf_seeds))

\* Two seeds with positive gains were accepted on exact estimates and a
\* re-evaluated node is queued.
RunningTotalWitness ==
    /\ celf_pc = "select"
    /\ ExactEstimates
    /\ default_prob = One
    /\ Len(accepts) = 2
    /\ accepts[2].gain > 0
    /\ spread_S > accepts[1].gain
    /\ recomputed # {}

\* C27: the entry a pop takes has the greatest gain in the queue and, among
\* the entries of that gain, the smallest node.
PopOrder ==
    [][(celf_pc = "select" /\ pq' # pq)
         => \A m \in pq \ pq' : \A e \in pq :
               \/ m[1] < e[1]
               \/ m[1] = e[1] /\ m[2] <= e[2]]_vars

\* Of two nodes with equal initial estimates the smaller one was selected.
PopOrderWitness ==
    /\ celf_pc = "select"
    /\ Len(celf_seeds) = 1
    /\ \E n \in Nodes : /\ n > celf_seeds[1]
                         /\ FirstGain(n) = FirstGain(celf_seeds[1])

\* _celf_deprecated was called with a valid k and a valid default_prob.
ValidLegacyCall ==
    /\ ~ (k < 1 \/ k > NumNodes)
    /\ 0 <= default_prob /\ default_prob <= One

Misjudged == \E i \in 1 .. Len(accepts) : accepts[i].basis # accepts[i].before

RECURSIVE WithinHops(_, _)
WithinHops(S, i) ==
    IF i <= 0
    THEN S
    ELSE LET B == WithinHops(S, i - 1)
         IN  B \cup {v \in Nodes : \E u \in B : <<u, v>> \in edges}

\* Every edge of the graph has activation probability p.
AllProb(p) == \A e \in edges : EdgeProb(e[1], e[2]) = p

\* C30: snapshot i of the history holds only nodes at most i hops from the
\* seeds; when every edge probability is 1 it is exactly that set and the
\* result is the breadth-first traversal truncated at max_steps; when every
\* edge probability is 0 the result is the seed set alone.
SnapshotsWithinHops ==
    /\ \A i \in 1 .. Len(steps) :
          /\ steps[i] \subseteq WithinHops(seeds, i - 1)
          /\ AllProb(One) => steps[i] = WithinHops(seeds, i - 1)
    /\ (Returned /\ AllProb(One))
          => active = WithinHops(seeds, Max(max_steps, 0))
    /\ (Returned /\ AllProb(0))
          => (active = seeds /\ steps = <<seeds>>)

\* A returned call on a graph whose edges all have probability 1, cut by
\* max_steps before the traversal was complete.
SnapshotsWithinHopsWitness ==
    /\ Returned
    /\ edges # {}
    /\ AllProb(One)
    /\ max_steps >= 1
    /\ Len(steps) = max_steps + 1
    /\ active = WithinHops(seeds, max_steps)
    /\ active # WithinHops(seeds, max_steps + 1)
====
